---- MODULE Spec2Model ----
(***************************************************************************)
(* State-machine model of server/app.py: the SQLite tables products,       *)
(* orders and order_items, the admin HTTP API, the public catalog, and the *)
(* bot handlers cmd_setadmin and on_webapp_data.                           *)
(*                                                                         *)
(* Python strings that go through a conversion (strip, isdigit, int, str,  *)
(* startswith) are sequences of one-character strings, so the conversions  *)
(* are computed and not assumed.  Every aiosqlite connection runs in       *)
(* sqlite3's default (deferred, autocommit-for-SELECT) mode: a SELECT      *)
(* reads the committed tables, and the INSERT/UPDATE/DELETE statements of  *)
(* one connection become visible together at its commit.  A handler is     *)
(* therefore cut into steps at the awaits between which another coroutine  *)
(* can observe or change committed state.                                  *)
(***************************************************************************)
EXTENDS Integers, Sequences, FiniteSets, TLC

VARIABLES
    ADMIN_SECRET,      \* module global, line 23
    ADMIN_ID_RUNTIME,  \* module global, line 314
    now,               \* int(time.time())
    products,          \* committed rows of table products
    productSeq,        \* AUTOINCREMENT counter of products.id
    orders,            \* committed rows of table orders
    order_items,       \* committed rows of table order_items
    orderSeq,          \* AUTOINCREMENT counter of orders.id
    itemSeq,           \* AUTOINCREMENT counter of order_items.id
    uploads,           \* file names present in UPLOAD_DIR
    http,              \* one record per in-flight / last HTTP request
    bot                \* one record per in-flight / last bot update

vars == <<ADMIN_SECRET, ADMIN_ID_RUNTIME, now, products, productSeq, orders,
          order_items, orderSeq, itemSeq, uploads, http, bot>>

dbVars == <<products, productSeq, orders, order_items, orderSeq, itemSeq>>

-----------------------------------------------------------------------------
(* Bounds of the model *)

MaxTime == 1
MaxProductInserts == 2
MaxOrders == 2
MaxUploads == 1

HttpSlots == {"h1", "h2"}
BotSlots == {"b1", "b2"}

-----------------------------------------------------------------------------
(* Python string primitives *)

DecimalChars == {"0", "1", "2", "3", "4", "5", "6", "7", "8", "9"}

\* U+00B2: str.isdigit() accepts it, int() does not.
SuperscriptTwo == "^2"

\* U+00A0 is whitespace for str.strip() and is legal inside a header value.
WhitespaceChars == {" ", "nbsp"}

RECURSIVE LStrip(_)
LStrip(s) ==
    IF Len(s) > 0 /\ Head(s) \in WhitespaceChars THEN LStrip(Tail(s)) ELSE s

RECURSIVE RStrip(_)
RStrip(s) ==
    IF Len(s) > 0 /\ s[Len(s)] \in WhitespaceChars
    THEN RStrip(SubSeq(s, 1, Len(s) - 1))
    ELSE s

\* str.strip()
Strip(s) == RStrip(LStrip(s))

\* str.isdigit()
IsDigit(s) ==
    /\ Len(s) > 0
    /\ \A i \in 1..Len(s) : s[i] \in DecimalChars \cup {SuperscriptTwo}

\* str.startswith(c)
StartsWith(s, c) == Len(s) > 0 /\ s[1] = c

\* str.lstrip("@")
RECURSIVE LStripAt(_)
LStripAt(s) == IF Len(s) > 0 /\ Head(s) = "@" THEN LStripAt(Tail(s)) ELSE s

DigitValue(c) ==
    CASE c = "0" -> 0 [] c = "1" -> 1 [] c = "2" -> 2 [] c = "3" -> 3
      [] c = "4" -> 4 [] c = "5" -> 5 [] c = "6" -> 6 [] c = "7" -> 7
      [] c = "8" -> 8 [] c = "9" -> 9

DigitChar(d) ==
    CASE d = 0 -> "0" [] d = 1 -> "1" [] d = 2 -> "2" [] d = 3 -> "3"
      [] d = 4 -> "4" [] d = 5 -> "5" [] d = 6 -> "6" [] d = 7 -> "7"
      [] d = 8 -> "8" [] d = 9 -> "9"

RECURSIVE NatValue(_)
NatValue(s) ==
    IF Len(s) = 0 THEN 0
    ELSE 10 * NatValue(SubSeq(s, 1, Len(s) - 1)) + DigitValue(s[Len(s)])

AllDecimal(s) == Len(s) > 0 /\ \A i \in 1..Len(s) : s[i] \in DecimalChars

\* int(s) succeeds: optional whitespace, optional sign, decimal digits.
IntParses(s) ==
    LET t == Strip(s) IN
    IF Len(t) > 0 /\ t[1] \in {"-", "+"} THEN AllDecimal(Tail(t)) ELSE AllDecimal(t)

\* int(s), defined when IntParses(s)
IntOfStr(s) ==
    LET t == Strip(s) IN
    IF t[1] = "-" THEN 0 - NatValue(Tail(t))
    ELSE IF t[1] = "+" THEN NatValue(Tail(t))
    ELSE NatValue(t)

RECURSIVE NatStr(_)
NatStr(n) == IF n < 10 THEN <<DigitChar(n)>> ELSE NatStr(n \div 10) \o <<DigitChar(n % 10)>>

\* str(n) of an int
StrOfInt(n) == IF n < 0 THEN <<"-">> \o NatStr(0 - n) ELSE NatStr(n)

-----------------------------------------------------------------------------
(* JSON values that reach a conversion: [int |-> n], [bool |-> b],        *)
(* [str |-> chars].                                                        *)

\* str(v)
PyStr(v) ==
    IF "int" \in DOMAIN v THEN StrOfInt(v.int)
    ELSE IF "bool" \in DOMAIN v
         THEN (IF v.bool THEN <<"T", "r", "u", "e">> ELSE <<"F", "a", "l", "s", "e">>)
         ELSE v.str

\* int(v) does not raise
PyIntOk(v) == "str" \in DOMAIN v => IntParses(v.str)

\* int(v)
PyInt(v) ==
    IF "int" \in DOMAIN v THEN v.int
    ELSE IF "bool" \in DOMAIN v THEN (IF v.bool THEN 1 ELSE 0)
    ELSE IntOfStr(v.str)

\* bool(v) of a JSON scalar
Truthy(v) ==
    IF "int" \in DOMAIN v THEN v.int # 0
    ELSE IF "bool" \in DOMAIN v THEN v.bool
    ELSE Len(v.str) > 0

-----------------------------------------------------------------------------
(* Configuration read from the environment (lines 19-25) *)

\* Values of the ADMIN_SECRET environment variable
AdminSecretEnv == {<<>>, <<" ">>, <<"s">>}

\* Values of the ADMIN_CHAT_ID environment variable
AdminChatIdEnv == {<<>>, <<"7">>, <<"-", "5">>, <<SuperscriptTwo>>}

-----------------------------------------------------------------------------
(* Table products (CREATE_SQL, lines 45-57) and the demo rows of init_db *)

DemoCount == 3

DemoProduct(id, sku, title, desc, price, cat, avail, t) ==
    [id |-> id, sku |-> sku, title |-> title, description |-> desc, price |-> price,
     currency |-> "UAH", image_url |-> "", category |-> cat, is_active |-> 1,
     availability |-> avail, created_at |-> t]

\* init_db on an empty database: the three demo rows, one timestamp
DemoProducts(t) ==
    { DemoProduct(1, "device_1", "Vape Device X", "d_device", 1899, "devices", "in_stock", t),
      DemoProduct(2, "liquid_1", "Mango 30ml", "d_liquid", 349, "liquids", "in_stock", t),
      DemoProduct(3, "cart_1", "Cartridge 1.0", "d_cart", 249, "cartridges", "preorder", t) }

\* SELECT ... FROM products WHERE sku=?
RowsOfSku(sku) == { r \in products : r.sku = sku }

\* dict.get(k, default)
Get(data, k, default) == IF k \in DOMAIN data THEN data[k] ELSE default

\* data.get("currency","UAH") or "UAH"
CurrencyOf(data) ==
    LET c == Get(data, "currency", "UAH") IN IF c = "" THEN "UAH" ELSE c

\* 1 if str(data.get("is_active","1")) in ("1","true","True") else 0
IsActiveOf(data) ==
    IF PyStr(Get(data, "is_active", [str |-> <<"1">>]))
         \in { <<"1">>, <<"t", "r", "u", "e">>, <<"T", "r", "u", "e">> }
    THEN 1 ELSE 0

RequiredFields == {"sku", "title", "price", "category", "availability", "is_active"}

\* The eight columns the UPDATE statement assigns (line 128)
UpdatedColumns(data) ==
    [title |-> Get(data, "title", ""),
     description |-> Get(data, "description", ""),
     price |-> PyInt(Get(data, "price", [int |-> 0])),
     currency |-> CurrencyOf(data),
     image_url |-> Get(data, "image_url", ""),
     category |-> Get(data, "category", "devices"),
     is_active |-> IsActiveOf(data),
     availability |-> Get(data, "availability", "in_stock")]

\* Faulty variant of UpdateRow: the UPDATE also stamps created_at
UpdateRowStampingCreatedAt(r, data) ==
    LET c == UpdatedColumns(data) IN
    [r EXCEPT !.title = c.title, !.description = c.description, !.price = c.price,
              !.currency = c.currency, !.image_url = c.image_url,
              !.category = c.category, !.is_active = c.is_active,
              !.availability = c.availability, !.created_at = now]

\* UPDATE products SET ... WHERE sku=?
UpdateRow(r, data) ==
    LET c == UpdatedColumns(data) IN
    [r EXCEPT !.title = c.title, !.description = c.description, !.price = c.price,
              !.currency = c.currency, !.image_url = c.image_url,
              !.category = c.category, !.is_active = c.is_active,
              !.availability = c.availability]

\* The row of INSERT INTO products ... VALUES (...) (lines 142-156)
InsertedRow(id, data, t) ==
    LET c == UpdatedColumns(data) IN
    [id |-> id, sku |-> data.sku, title |-> c.title, description |-> c.description,
     price |-> c.price, currency |-> c.currency, image_url |-> c.image_url,
     category |-> c.category, is_active |-> c.is_active,
     availability |-> c.availability, created_at |-> t]

\* sku TEXT UNIQUE: the INSERT raises sqlite3.IntegrityError when the SKU is there
UniqueViolated(sku) == RowsOfSku(sku) # {}

\* list_products: every row, without id and created_at.  The ORDER BY only
\* orders the rows; the result is kept as the set of its dicts.
ListProducts ==
    { [sku |-> r.sku, title |-> r.title, description |-> r.description,
       price |-> r.price, currency |-> r.currency, image_url |-> r.image_url,
       category |-> r.category, is_active |-> r.is_active,
       availability |-> r.availability] : r \in products }

-----------------------------------------------------------------------------
(* HTTP requests *)

\* X-Admin-Secret header values a client sends; <<>> is also the default of
\* request.headers.get when the header is absent.
Headers == { <<>>, <<"s">>, <<"nbsp", "s">> }

\* JSON bodies posted to /api/admin/catalog
UpsertBodies ==
    { [sku |-> "device_1", title |-> "Vape Device X2", description |-> "d2",
       price |-> [int |-> 2], currency |-> "", image_url |-> "/uploads/a.jpg",
       category |-> "liquids", is_active |-> [bool |-> FALSE],
       availability |-> "preorder"],
      [sku |-> "new_1", title |-> "New", price |-> [int |-> 3],
       category |-> "devices", availability |-> "in_stock",
       is_active |-> [str |-> <<"t", "r", "u", "e">>]],
      [sku |-> "new_1", title |-> "New B", price |-> [str |-> <<"5">>],
       currency |-> "USD", category |-> "devices", availability |-> "in_stock",
       is_active |-> [int |-> 0]],
      [sku |-> "new_1", title |-> "No price"],
      [sku |-> "device_1", title |-> "Bad price", price |-> [str |-> <<"x">>],
       category |-> "devices", availability |-> "in_stock",
       is_active |-> [int |-> 1]] }

\* SKUs named in DELETE /api/admin/catalog/{sku}
DeleteSkus == {"device_1", "new_1"}

NoBody == [kind |-> "none"]

\* hdr is the X-Admin-Secret header the request carried.  raced is a history
\* flag, not program state: another connection committed an INSERT of this
\* request's SKU after this request's SELECT had found none.
IdleHttp == [pc |-> "idle", op |-> "none", hdr |-> <<>>, data |-> NoBody,
             found |-> FALSE, raced |-> FALSE, status |-> 0, body |-> NoBody]

\* A finished request: the handler's slot keeps the response it sent.
Response(op, hdr, status, body) ==
    [IdleHttp EXCEPT !.op = op, !.hdr = hdr, !.status = status, !.body = body]

\* A request suspended at an await inside its database work
InFlight(pc, op, hdr, data, found) ==
    [IdleHttp EXCEPT !.pc = pc, !.op = op, !.hdr = hdr, !.data = data, !.found = found]

\* Faulty variant of AdminOk: the test for an empty ADMIN_SECRET is missing
AdminOkWithoutEmptyCheck(header) == Strip(header) = ADMIN_SECRET

\* require_admin lets the request through (lines 222-225)
AdminOk(header) ==
    LET token == Strip(header) IN
    ~(ADMIN_SECRET = <<>> \/ token # ADMIN_SECRET)

\* raise web.HTTPUnauthorized: nothing else of the handler runs
Unauthorized(h, op, header) ==
    /\ http' = [http EXCEPT ![h] = Response(op, header, 401, [kind |-> "text"])]
    /\ UNCHANGED <<ADMIN_SECRET, ADMIN_ID_RUNTIME, now, dbVars, uploads, bot>>

\* api_catalog: GET /api/catalog, no authentication
api_catalog(h) ==
    /\ http[h].pc = "idle"
    /\ http' = [http EXCEPT ![h] =
                  Response("api_catalog", <<>>, 200, [kind |-> "items", items |-> ListProducts])]
    /\ UNCHANGED <<ADMIN_SECRET, ADMIN_ID_RUNTIME, now, dbVars, uploads, bot>>

\* api_admin_catalog_get: GET /api/admin/catalog
api_admin_catalog_get(h, header) ==
    /\ http[h].pc = "idle"
    /\ IF ~AdminOk(header) THEN Unauthorized(h, "api_admin_catalog_get", header)
       ELSE /\ http' = [http EXCEPT ![h] =
                          Response("api_admin_catalog_get", header, 200,
                                   [kind |-> "items", items |-> ListProducts])]
            /\ UNCHANGED <<ADMIN_SECRET, ADMIN_ID_RUNTIME, now, dbVars, uploads, bot>>

\* Model bound on AUTOINCREMENT: inserts still allowed for a new request
MayInsertProduct ==
    productSeq + Cardinality({ g \in HttpSlots : http[g].pc = "upsert_write" })
        < DemoCount + MaxProductInserts

\* api_admin_catalog_upsert up to the await after upsert_product's SELECT:
\* require_admin, request.json(), the required-field check, SELECT id.
api_admin_catalog_upsert(h, header, data) ==
    /\ http[h].pc = "idle"
    /\ MayInsertProduct
    /\ IF ~AdminOk(header) THEN Unauthorized(h, "api_admin_catalog_upsert", header)
       ELSE /\ IF \E k \in RequiredFields : k \notin DOMAIN data
               THEN http' = [http EXCEPT ![h] =
                               Response("api_admin_catalog_upsert", header, 400, [kind |-> "text"])]
               ELSE http' = [http EXCEPT ![h] =
                               InFlight("upsert_write", "api_admin_catalog_upsert",
                                        header, data, RowsOfSku(data.sku) # {})]
            /\ UNCHANGED <<ADMIN_SECRET, ADMIN_ID_RUNTIME, now, dbVars, uploads, bot>>

\* The table after upsert_product's UPDATE or INSERT and commit (lines 126-157)
UpsertWrite(data, found) ==
    IF found
    THEN { IF r.sku = data.sku THEN UpdateRow(r, data) ELSE r : r \in products }
    ELSE products \cup { InsertedRow(productSeq + 1, data, now) }

\* The request slots after slot h answered: h keeps its response, and a
\* request still between its SELECT (no row) and its INSERT of the SKU that h
\* has just inserted is marked raced.
AfterUpsert(h, status, inserted) ==
    [g \in HttpSlots |->
        IF g = h
        THEN [Response("api_admin_catalog_upsert", http[h].hdr, status,
                       [kind |-> IF status = 200 THEN "ok" ELSE "text"])
                EXCEPT !.raced = http[h].raced]
        ELSE IF inserted /\ http[g].pc = "upsert_write" /\ ~http[g].found
                /\ http[g].data.sku = http[h].data.sku
        THEN [http[g] EXCEPT !.raced = TRUE]
        ELSE http[g]]

\* upsert_product from the UPDATE/INSERT to the commit, and the response
upsert_product_write(h) ==
    /\ http[h].pc = "upsert_write"
    /\ LET data == http[h].data
           found == http[h].found
       IN  IF ~PyIntOk(data.price) \/ (~found /\ UniqueViolated(data.sku))
           THEN \* ValueError from int(), or sqlite3.IntegrityError: the connection
                \* closes without a commit and aiohttp answers 500
                /\ http' = AfterUpsert(h, 500, FALSE)
                /\ UNCHANGED <<products, productSeq>>
           ELSE /\ products' = UpsertWrite(data, found)
                /\ productSeq' = IF found THEN productSeq ELSE productSeq + 1
                /\ http' = AfterUpsert(h, 200, ~found)
    /\ UNCHANGED <<ADMIN_SECRET, ADMIN_ID_RUNTIME, now, orders, order_items,
                   orderSeq, itemSeq, uploads, bot>>

\* DELETE FROM products WHERE sku=?
DeleteRows(sku) == { r \in products : r.sku # sku }

\* api_admin_catalog_delete: DELETE /api/admin/catalog/{sku}
api_admin_catalog_delete(h, header, sku) ==
    /\ http[h].pc = "idle"
    /\ IF ~AdminOk(header) THEN Unauthorized(h, "api_admin_catalog_delete", header)
       ELSE /\ products' = DeleteRows(sku)
            /\ http' = [http EXCEPT ![h] =
                          Response("api_admin_catalog_delete", header, 200, [kind |-> "ok"])]
            /\ UNCHANGED <<ADMIN_SECRET, ADMIN_ID_RUNTIME, now, productSeq, orders,
                           order_items, orderSeq, itemSeq, uploads, bot>>

-----------------------------------------------------------------------------
(* Tables orders and order_items (lines 59-82) and their readers *)

\* list_orders(limit): ORDER BY id DESC LIMIT ?, without tg_user_id
ListOrders(limit) ==
    { [id |-> o.id, tg_username |-> o.tg_username, total |-> o.total,
       currency |-> o.currency, status |-> o.status, created_at |-> o.created_at] :
      o \in { x \in orders : Cardinality({ y \in orders : y.id > x.id }) < limit } }

\* The rows as the list of dicts get_order builds (line 211), in rowid order
RECURSIVE ItemDicts(_)
ItemDicts(rows) ==
    IF rows = {} THEN <<>>
    ELSE LET m == CHOOSE x \in rows : \A y \in rows : x.id <= y.id IN
         << [sku |-> m.product_sku, title |-> m.product_title,
             price |-> m.price, qty |-> m.qty] >> \o ItemDicts(rows \ {m})

\* SELECT ... FROM order_items WHERE order_id=?, as get_order's item dicts
ItemsOfOrder(oid) == ItemDicts({ x \in order_items : x.order_id = oid })

OrderStatuses == {"new", "processing", "shipped", "done", "canceled"}

\* Order ids named in /api/admin/orders/{order_id}
OrderIds == 1..MaxOrders

\* JSON bodies posted to /api/admin/orders/{id}/status
StatusBodies == { [status |-> "processing"], [status |-> "bogus"], [other |-> "x"] }

\* api_admin_orders: GET /api/admin/orders
api_admin_orders(h, header) ==
    /\ http[h].pc = "idle"
    /\ IF ~AdminOk(header) THEN Unauthorized(h, "api_admin_orders", header)
       ELSE /\ http' = [http EXCEPT ![h] =
                          Response("api_admin_orders", header, 200,
                                   [kind |-> "orders", orders |-> ListOrders(200)])]
            /\ UNCHANGED <<ADMIN_SECRET, ADMIN_ID_RUNTIME, now, dbVars, uploads, bot>>

\* api_admin_order_one up to the await after get_order's first SELECT
api_admin_order_one(h, header, oid) ==
    /\ http[h].pc = "idle"
    /\ IF ~AdminOk(header) THEN Unauthorized(h, "api_admin_order_one", header)
       ELSE /\ IF \E o \in orders : o.id = oid
               THEN http' = [http EXCEPT ![h] =
                               InFlight("order_items", "api_admin_order_one", header,
                                        CHOOSE o \in orders : o.id = oid, TRUE)]
               ELSE http' = [http EXCEPT ![h] =
                               Response("api_admin_order_one", header, 404, [kind |-> "text"])]
            /\ UNCHANGED <<ADMIN_SECRET, ADMIN_ID_RUNTIME, now, dbVars, uploads, bot>>

\* get_order's second SELECT and the response (lines 205-212, 283)
get_order_items(h) ==
    /\ http[h].pc = "order_items"
    /\ LET o == http[h].data IN
       http' = [http EXCEPT ![h] =
                  Response("api_admin_order_one", http[h].hdr, 200,
                           [kind |-> "order", id |-> o.id, total |-> o.total,
                            status |-> o.status, items |-> ItemsOfOrder(o.id)])]
    /\ UNCHANGED <<ADMIN_SECRET, ADMIN_ID_RUNTIME, now, dbVars, uploads, bot>>

\* UPDATE orders SET status=? WHERE id=?
SetStatusRows(oid, status) ==
    { IF o.id = oid THEN [o EXCEPT !.status = status] ELSE o : o \in orders }

\* api_admin_order_status: POST /api/admin/orders/{id}/status
api_admin_order_status(h, header, oid, data) ==
    /\ http[h].pc = "idle"
    /\ IF ~AdminOk(header) THEN Unauthorized(h, "api_admin_order_status", header)
       ELSE LET status == Get(data, "status", "new") IN
            IF status \notin OrderStatuses
            THEN /\ http' = [http EXCEPT ![h] =
                               Response("api_admin_order_status", header, 400, [kind |-> "text"])]
                 /\ UNCHANGED <<ADMIN_SECRET, ADMIN_ID_RUNTIME, now, dbVars, uploads, bot>>
            ELSE /\ orders' = SetStatusRows(oid, status)
                 /\ http' = [http EXCEPT ![h] =
                               Response("api_admin_order_status", header, 200, [kind |-> "ok"])]
                 /\ UNCHANGED <<ADMIN_SECRET, ADMIN_ID_RUNTIME, now, products, productSeq,
                                order_items, orderSeq, itemSeq, uploads, bot>>

\* Multipart uploads: the first field's name and file name
UploadForms ==
    { [field |-> "none"], [field |-> "file", filename |-> "a.heic", ext |-> ".heic"],
      [field |-> "file", filename |-> "", ext |-> ""] }

\* secrets.token_hex(3)
Tokens == {"aa", "bb"}

\* api_admin_upload: POST /api/admin/upload
api_admin_upload(h, header, form, token) ==
    /\ http[h].pc = "idle"
    /\ Cardinality(uploads) < MaxUploads
    /\ IF ~AdminOk(header) THEN Unauthorized(h, "api_admin_upload", header)
       ELSE IF form.field # "file" \/ form.ext \in {".heic", ".heif"}
            THEN /\ http' = [http EXCEPT ![h] =
                               Response("api_admin_upload", header, 400, [kind |-> "text"])]
                 /\ UNCHANGED <<ADMIN_SECRET, ADMIN_ID_RUNTIME, now, dbVars, uploads, bot>>
            ELSE LET safe == <<now, token, IF form.ext = "" THEN ".jpg" ELSE form.ext>> IN
                 /\ uploads' = uploads \cup {safe}
                 /\ http' = [http EXCEPT ![h] =
                               Response("api_admin_upload", header, 200, [kind |-> "url", url |-> safe])]
                 /\ UNCHANGED <<ADMIN_SECRET, ADMIN_ID_RUNTIME, now, dbVars, bot>>

-----------------------------------------------------------------------------
(* Bot updates *)

\* Chats a /setadmin command arrives from: a private chat and a group chat
AdminChats == {7, -5}

\* The customer's chat (m.chat.id) and Telegram user (m.from_user); a user
\* without a username has username None, written <<>>.
CustomerChat == 3

Customers == { [id |-> 3, username |-> <<>>], [id |-> 3, username |-> <<"u">>] }

CheckoutBase ==
    [type |-> "checkout", agree18 |-> [bool |-> TRUE], acceptRules |-> [int |-> 1],
     username |-> [str |-> <<" ", "@", "n">>]]

\* dict union: the keys of e added to (or replacing those of) d
With(d, e) ==
    [k \in DOMAIN d \cup DOMAIN e |-> IF k \in DOMAIN e THEN e[k] ELSE d[k]]

\* m.web_app_data.data as json.loads sees it
Payloads ==
    { [json |-> "invalid"],
      [json |-> "array"],
      [json |-> "object", obj |-> [type |-> "ping"]],
      [json |-> "object", obj |-> With(CheckoutBase, [agree18 |-> [bool |-> FALSE]])],
      [json |-> "object", obj |-> With(CheckoutBase, [username |-> [str |-> <<"n">>]])],
      [json |-> "object", obj |-> With(CheckoutBase, [username |-> [int |-> 5]])],
      [json |-> "object", obj |-> CheckoutBase],
      [json |-> "object", obj |-> With(CheckoutBase, [items |->
          << [sku |-> "ghost_1", qty |-> [int |-> 1]],
             [sku |-> "liquid_1", qty |-> [int |-> 0]] >>])],
      [json |-> "object", obj |-> With(CheckoutBase, [items |->
          << [sku |-> "liquid_1", qty |-> [str |-> <<"x">>]] >>])],
      [json |-> "object", obj |-> With(CheckoutBase, [items |->
          << [sku |-> "device_1", qty |-> [int |-> 2], price |-> 1],
             [sku |-> "liquid_1"] >>])],
      [json |-> "object", obj |-> With(CheckoutBase, [items |->
          << [sku |-> "new_1", qty |-> [str |-> <<"3">>]],
             [sku |-> "device_1", qty |-> [int |-> 1]] >>])] }

\* orders_seen is a history field, not program state: the number of orders
\* created before a /setadmin command was handled.
IdleBot ==
    [pc |-> "idle", op |-> "none", chat |-> 0, user |-> [id |-> 0, username |-> <<>>],
     data |-> [json |-> "none"], idx |-> 0, items |-> <<>>, total |-> 0,
     currency |-> "UAH", order_id |-> 0, out |-> <<>>, raised |-> FALSE,
     orders_seen |-> 0]

\* m.answer(text): one message to the chat the update came from
Answer(chat, kind) == [to |-> chat, kind |-> kind]

\* cmd_setadmin (lines 324-328)
cmd_setadmin(b, chat) ==
    /\ bot[b].pc = "idle"
    /\ ADMIN_ID_RUNTIME' = StrOfInt(chat)
    /\ bot' = [bot EXCEPT ![b] =
                 [IdleBot EXCEPT !.op = "cmd_setadmin", !.chat = chat,
                                 !.out = <<Answer(chat, "admin_chat_set")>>,
                                 !.orders_seen = orderSeq]]
    /\ UNCHANGED <<ADMIN_SECRET, now, dbVars, uploads, http>>

\* The update handled by slot b ends here with one answer to the customer
Finish(b, chat, user, payload, kind) ==
    bot' = [bot EXCEPT ![b] =
              [IdleBot EXCEPT !.op = "on_webapp_data", !.chat = chat, !.user = user,
                              !.data = payload, !.out = <<Answer(chat, kind)>>]]

\* An exception leaves on_webapp_data: the dispatcher logs it, nothing is answered
Raise(b, chat, user, payload) ==
    bot' = [bot EXCEPT ![b] =
              [IdleBot EXCEPT !.op = "on_webapp_data", !.chat = chat, !.user = user,
                              !.data = payload, !.raised = TRUE]]

\* username = (data.get("username") or "").strip(), for a string or absent value
UsernameOf(obj) ==
    IF "username" \in DOMAIN obj /\ Truthy(obj.username) THEN Strip(obj.username.str) ELSE <<>>

\* data.get("items", [])
ItemsOf(obj) == Get(obj, "items", <<>>)

\* Model bound on AUTOINCREMENT of orders: checkouts still allowed to start
MayStartCheckout ==
    orderSeq + Cardinality({ c \in BotSlots : bot[c].pc \in {"load", "save", "notify"} })
        < MaxOrders

\* on_webapp_data from json.loads to the first SELECT of the loop (lines 370-390)
on_webapp_data(b, user, payload) ==
    /\ bot[b].pc = "idle"
    /\ MayStartCheckout
    /\ LET chat == CustomerChat IN
       IF payload.json = "invalid" THEN Finish(b, chat, user, payload, "unreadable")
       ELSE IF payload.json = "array" THEN Raise(b, chat, user, payload)
       ELSE LET obj == payload.obj IN
            IF Get(obj, "type", "") # "checkout"
            THEN Finish(b, chat, user, payload, "unknown_type")
            ELSE IF ~Truthy(Get(obj, "agree18", [bool |-> FALSE]))
                    \/ ~Truthy(Get(obj, "acceptRules", [bool |-> FALSE]))
            THEN Finish(b, chat, user, payload, "need_agree")
            ELSE IF "username" \in DOMAIN obj /\ Truthy(obj.username)
                    /\ "str" \notin DOMAIN obj.username
            THEN Raise(b, chat, user, payload)
            ELSE IF ~StartsWith(UsernameOf(obj), "@")
            THEN Finish(b, chat, user, payload, "need_nick")
            ELSE IF Len(ItemsOf(obj)) = 0
            THEN Finish(b, chat, user, payload, "empty_cart")
            ELSE bot' = [bot EXCEPT ![b] =
                           [IdleBot EXCEPT !.pc = "load", !.op = "on_webapp_data",
                                           !.chat = chat, !.user = user,
                                           !.data = payload, !.idx = 1]]
    /\ UNCHANGED <<ADMIN_SECRET, ADMIN_ID_RUNTIME, now, dbVars, uploads, http>>

\* if not row or qty <= 0: continue (line 395)
Skipped(rows, qty) == rows = {} \/ qty <= 0

\* Faulty variant of ItemPrice: a price sent by the client is trusted
ItemPriceFromClient(it, row) == Get(it, "price", row.price)

\* The price an accepted item is charged at: the row's, read in this SELECT
ItemPrice(it, row) == row.price

\* One iteration of the loop (lines 390-399): int(qty), the SELECT, the
\* accumulation; after the last one, the test of line 401.
load_item(b) ==
    /\ bot[b].pc = "load"
    /\ LET st == bot[b]
           its == ItemsOf(st.data.obj)
           it == its[st.idx]
           last == st.idx = Len(its)
           sku == Get(it, "sku", "None")
           qv == Get(it, "qty", [int |-> 1])
       IN  IF ~PyIntOk(qv) THEN Raise(b, st.chat, st.user, st.data)
           ELSE LET qty == PyInt(qv)
                    rows == RowsOfSku(sku)
                    skip == Skipped(rows, qty)
                    row == CHOOSE r \in rows : TRUE
                    items2 == IF skip THEN st.items
                              ELSE Append(st.items,
                                          [sku |-> sku, title |-> row.title,
                                           price |-> ItemPrice(it, row), qty |-> qty])
                    total2 == IF skip THEN st.total
                              ELSE st.total + ItemPrice(it, row) * qty
                    currency2 == IF skip THEN st.currency ELSE row.currency
                IN  IF last /\ Len(items2) = 0
                    THEN Finish(b, st.chat, st.user, st.data, "empty_cart")
                    ELSE bot' = [bot EXCEPT ![b] =
                                   [st EXCEPT !.pc = IF last THEN "save" ELSE "load",
                                              !.idx = st.idx + 1, !.items = items2,
                                              !.total = total2, !.currency = currency2]]
    /\ UNCHANGED <<ADMIN_SECRET, ADMIN_ID_RUNTIME, now, dbVars, uploads, http>>

\* The user save_order is given (lines 410-418): a FakeUser carrying the
\* payload's nick when the Telegram user has no username
OrderUser(st) ==
    LET username == UsernameOf(st.data.obj) IN
    IF Len(username) > 0 /\ Len(st.user.username) = 0
    THEN [id |-> st.user.id, username |-> LStripAt(username)]
    ELSE st.user

\* f"@{user.username}" if user.username else None (None written <<>>)
TgUsername(user) ==
    IF Len(user.username) > 0 THEN <<"@">> \o user.username ELSE <<>>

\* The orders row save_order inserts (lines 167-176).  city, branch,
\* receiver, phone and tg_name are copied from the update and not kept here.
OrderRow(oid, st) ==
    [id |-> oid, tg_user_id |-> OrderUser(st).id,
     tg_username |-> TgUsername(OrderUser(st)), total |-> st.total,
     currency |-> st.currency, status |-> "new", created_at |-> now]

\* Faulty variant of OrderItemRows: the first item is not inserted
OrderItemRowsSkippingFirst(oid, items) ==
    { [id |-> itemSeq + k, order_id |-> oid, product_sku |-> items[k].sku,
       product_title |-> items[k].title, price |-> items[k].price,
       qty |-> items[k].qty] : k \in 2..Len(items) }

\* The order_items rows save_order inserts (lines 178-182)
OrderItemRows(oid, items) ==
    { [id |-> itemSeq + k, order_id |-> oid, product_sku |-> items[k].sku,
       product_title |-> items[k].title, price |-> items[k].price,
       qty |-> items[k].qty] : k \in 1..Len(items) }

\* save_order: both INSERTs and the commit (lines 164-184)
save_order(b) ==
    /\ bot[b].pc = "save"
    /\ LET st == bot[b]
           oid == orderSeq + 1
       IN  /\ orders' = orders \cup { OrderRow(oid, st) }
           /\ order_items' = order_items \cup OrderItemRows(oid, st.items)
           /\ orderSeq' = oid
           /\ itemSeq' = itemSeq + Len(st.items)
           /\ bot' = [bot EXCEPT ![b] = [st EXCEPT !.pc = "notify", !.order_id = oid]]
    /\ UNCHANGED <<ADMIN_SECRET, ADMIN_ID_RUNTIME, now, products, productSeq, uploads, http>>

\* notify_admin reaches bot.send_message (line 318 and the int() of line 320)
NotifyCalls == ADMIN_ID_RUNTIME # <<>> /\ IsDigit(ADMIN_ID_RUNTIME) /\ IntParses(ADMIN_ID_RUNTIME)

\* The messages notify_admin hands to bot.send_message; delivered is FALSE
\* when send_message raised and the exception was swallowed
NotifyMessages(st, delivered) ==
    IF NotifyCalls
    THEN << [to |-> IntOfStr(ADMIN_ID_RUNTIME), kind |-> "new_order",
             order_id |-> st.order_id, total |-> st.total, delivered |-> delivered] >>
    ELSE <<>>

\* Faulty variant of AfterSave: the customer is answered before the admin is notified
AfterSaveConfirmingFirst(st, delivered) ==
    << Answer(st.chat, "order_created") >> \o NotifyMessages(st, delivered)

\* Faulty variant of AfterSave: a failed send_message ends the handler
AfterSaveStoppingOnFailure(st, delivered) ==
    IF delivered
    THEN NotifyMessages(st, delivered) \o << Answer(st.chat, "order_created") >>
    ELSE NotifyMessages(st, delivered)

\* What on_webapp_data sends after save_order returned (lines 432-434)
AfterSave(st, delivered) ==
    NotifyMessages(st, delivered) \o << Answer(st.chat, "order_created") >>

\* notify_admin and the confirmation to the customer (lines 422-434)
notify_and_confirm(b, delivered) ==
    /\ bot[b].pc = "notify"
    /\ (NotifyCalls \/ delivered)
    /\ bot' = [bot EXCEPT ![b] =
                 [IdleBot EXCEPT !.op = "on_webapp_data", !.chat = bot[b].chat,
                                 !.user = bot[b].user, !.data = bot[b].data,
                                 !.order_id = bot[b].order_id,
                                 !.out = AfterSave(bot[b], delivered)]]
    /\ UNCHANGED <<ADMIN_SECRET, ADMIN_ID_RUNTIME, now, dbVars, uploads, http>>

-----------------------------------------------------------------------------

\* time.time() advances
Tick ==
    /\ now < MaxTime
    /\ now' = now + 1
    /\ UNCHANGED <<ADMIN_SECRET, ADMIN_ID_RUNTIME, dbVars, uploads, http, bot>>

\* Module import (lines 23, 25, 314) followed by init_db on an empty database
Init ==
    /\ ADMIN_SECRET \in { Strip(e) : e \in AdminSecretEnv }
    /\ ADMIN_ID_RUNTIME \in { Strip(e) : e \in AdminChatIdEnv }
    /\ now = 0
    /\ products = DemoProducts(0)
    /\ productSeq = DemoCount
    /\ orders = {}
    /\ order_items = {}
    /\ orderSeq = 0
    /\ itemSeq = 0
    /\ uploads = {}
    /\ http = [h \in HttpSlots |-> IdleHttp]
    /\ bot = [b \in BotSlots |-> IdleBot]

\* The header the admin page sends
AdminHeader == <<"s">>

\* A deployment without ADMIN_CHAT_ID
InitCatalog == Init /\ ADMIN_ID_RUNTIME = <<>>

CatalogNext ==
    \/ Tick
    \/ \E h \in HttpSlots : api_catalog(h)
    \/ \E h \in HttpSlots : api_admin_catalog_get(h, AdminHeader)
    \/ \E h \in HttpSlots, d \in UpsertBodies :
          api_admin_catalog_upsert(h, AdminHeader, d)
    \/ \E h \in HttpSlots : upsert_product_write(h)
    \/ \E h \in HttpSlots, s \in DeleteSkus :
          api_admin_catalog_delete(h, AdminHeader, s)

\* The catalog API served to two concurrent HTTP clients
SpecCatalog == InitCatalog /\ [][CatalogNext]_vars

\* Catalog edits while customers check out: a price change of liquid_1 and
\* the removal of device_1
PriceEdits ==
    { [sku |-> "liquid_1", title |-> "Mango 30ml", description |-> "d_liquid",
       price |-> [int |-> 2], currency |-> "USD", image_url |-> "",
       category |-> "liquids", is_active |-> [int |-> 1],
       availability |-> "in_stock"] }

CatalogEdits(h) ==
    \/ \E d \in PriceEdits : api_admin_catalog_upsert(h, AdminHeader, d)
    \/ upsert_product_write(h)
    \/ api_admin_catalog_delete(h, AdminHeader, "device_1")

\* One customer at a time, the admin editing the catalog and moving the
\* admin chat meanwhile
Next ==
    \/ CatalogEdits("h1")
    \/ \E c \in AdminChats : cmd_setadmin("b2", c)
    \/ \E u \in Customers, p \in Payloads : on_webapp_data("b1", u, p)
    \/ load_item("b1")
    \/ save_order("b1")
    \/ \E ok \in BOOLEAN : notify_and_confirm("b1", ok)

Spec == Init /\ [][Next]_vars

\* Payloads that can become an order
CartPayloads ==
    { p \in Payloads : p.json = "object" /\ Len(ItemsOf(p.obj)) = 2
                       /\ p.obj.items[1].sku = "device_1" }

NoUsername == { u \in Customers : u.username = <<>> }

InitOrders == Init /\ ADMIN_SECRET = <<"s">> /\ ADMIN_ID_RUNTIME = <<"7">>

\* Two customers checking out concurrently while the admin edits the catalog,
\* reads orders and changes their status
OrdersNext ==
    \/ CatalogEdits("h1")
    \/ api_admin_orders("h1", AdminHeader)
    \/ \E o \in OrderIds : api_admin_order_one("h1", AdminHeader, o)
    \/ get_order_items("h1")
    \/ \E o \in OrderIds, d \in StatusBodies :
          api_admin_order_status("h1", AdminHeader, o, d)
    \/ \E b \in BotSlots, u \in NoUsername, p \in CartPayloads : on_webapp_data(b, u, p)
    \/ \E b \in BotSlots : load_item(b)
    \/ \E b \in BotSlots : save_order(b)
    \/ \E b \in BotSlots, ok \in BOOLEAN : notify_and_confirm(b, ok)

SpecOrders == InitOrders /\ [][OrdersNext]_vars

\* Every admin endpoint under every header, with orders coming in
AdminNext ==
    \/ \E hd \in Headers : api_admin_catalog_get("h1", hd)
    \/ \E hd \in Headers, d \in PriceEdits : api_admin_catalog_upsert("h1", hd, d)
    \/ upsert_product_write("h1")
    \/ \E hd \in Headers : api_admin_catalog_delete("h1", hd, "device_1")
    \/ \E hd \in Headers, f \in UploadForms, t \in Tokens : api_admin_upload("h1", hd, f, t)
    \/ \E hd \in Headers : api_admin_orders("h1", hd)
    \/ \E hd \in Headers, o \in OrderIds : api_admin_order_one("h1", hd, o)
    \/ get_order_items("h1")
    \/ \E hd \in Headers, o \in OrderIds, d \in StatusBodies :
          api_admin_order_status("h1", hd, o, d)
    \/ \E u \in NoUsername, p \in CartPayloads : on_webapp_data("b1", u, p)
    \/ load_item("b1")
    \/ save_order("b1")
    \/ notify_and_confirm("b1", TRUE)

SpecAdmin == InitCatalog /\ [][AdminNext]_vars

-----------------------------------------------------------------------------
(* Properties of the catalog *)

UniqueSku == \A r1, r2 \in products : r1.sku = r2.sku => r1 = r2

\* Slot h commits its upsert in this step, and no other connection has
\* written the SKU since its SELECT: what the SELECT found is still so.
UpsertCommits(h) ==
    /\ http[h].pc = "upsert_write"
    /\ http'[h].pc = "idle"
    /\ http'[h].status = 200
    /\ http[h].found = (RowsOfSku(http[h].data.sku) # {})

UpdatedInPlace(data) ==
    /\ Cardinality(products') = Cardinality(products)
    /\ \A r \in products : r.sku # data.sku => r \in products'
    /\ \A r \in RowsOfSku(data.sku) :
          \E q \in products' :
             /\ q.id = r.id /\ q.sku = r.sku /\ q.created_at = r.created_at
             /\ q.title = data.title
             /\ q.description = Get(data, "description", "")
             /\ q.price = PyInt(data.price)
             /\ q.currency = CurrencyOf(data)
             /\ q.image_url = Get(data, "image_url", "")
             /\ q.category = data.category
             /\ q.is_active = IsActiveOf(data)
             /\ q.availability = data.availability

InsertedOne(data) ==
    /\ products \subseteq products'
    /\ Cardinality(products') = Cardinality(products) + 1
    /\ \A q \in products' \ products : q.sku = data.sku

\* C1: the products table never holds two rows with one SKU, whatever the
\* interleaving of upserts and deletes; an upsert of a present SKU rewrites
\* the eight data columns of that row and keeps its id and created_at; an
\* upsert of an absent SKU adds exactly one row, of that SKU.
C1_UpsertKeyedBySku ==
    /\ []UniqueSku
    /\ [][\A h \in HttpSlots :
            UpsertCommits(h) =>
               IF http[h].found THEN UpdatedInPlace(http[h].data)
               ELSE InsertedOne(http[h].data)]_vars

\* An existing row was rewritten a clock tick after it was created, and a
\* new SKU was inserted beside it.
C1_Witness ==
    /\ now = 1
    /\ \E r \in products :
          r.sku = "device_1" /\ r.id = 1 /\ r.title = "Vape Device X2"
          /\ r.price = 2 /\ r.is_active = 0 /\ r.currency = "UAH" /\ r.created_at = 0
    /\ \E r \in products : r.sku = "new_1" /\ r.created_at = 1 /\ r.price = 5
    /\ \E h \in HttpSlots : http[h].op = "api_admin_catalog_upsert" /\ http[h].status = 200

\* C5: every item of a public catalog response has is_active = 1.
C5_CatalogShowsOnlyActive ==
    \A h \in HttpSlots :
       (http[h].op = "api_catalog" /\ http[h].status = 200) =>
          \A it \in http[h].body.items : it.is_active = 1

\* Slot g, marked raced, answers in this step
RacedUpsertAnswers(g) ==
    /\ http[g].pc = "upsert_write"
    /\ http[g].raced
    /\ PyIntOk(http[g].data.price)
    /\ http'[g].pc = "idle"

\* C8: of two upserts of an absent SKU that both ran their SELECT before
\* either INSERT was committed, the second to write also answers 200, and one
\* row of the SKU exists then.
C8_RacingUpsertsBothSucceed ==
    [][\A g \in HttpSlots :
         RacedUpsertAnswers(g) =>
            /\ http'[g].status = 200
            /\ Cardinality({ r \in products' : r.sku = http[g].data.sku }) = 1]_vars

-----------------------------------------------------------------------------
(* Properties of the checkout *)

\* Slot b has handled a WebApp update to its end
Finished(b) == bot[b].pc = "idle" /\ bot[b].op = "on_webapp_data"

\* Slot b runs notify_admin and the confirmation in this step
NotifyStep(b) == bot[b].pc = "notify" /\ bot'[b].pc = "idle"

OrderExists(oid) == \E o \in orders : o.id = oid

\* C2 (as amended): after save_order committed the order, bot.send_message
\* is called for the admin chat exactly when ADMIN_ID_RUNTIME is a non-empty
\* string of decimal digits, with that number as chat id and before the
\* confirmation to the customer; for every other value only the confirmation
\* is sent.
C2_NotifiedWhenAdminIdIsDecimal ==
    [][\A b \in BotSlots :
         NotifyStep(b) =>
            LET out == bot'[b].out
                st == bot[b]
            IN  /\ OrderExists(st.order_id)
                /\ IF AllDecimal(ADMIN_ID_RUNTIME)
                   THEN /\ Len(out) = 2
                        /\ out[1].kind = "new_order"
                        /\ out[1].to = NatValue(ADMIN_ID_RUNTIME)
                        /\ out[1].order_id = st.order_id
                        /\ out[2] = Answer(st.chat, "order_created")
                   ELSE out = << Answer(st.chat, "order_created") >>]_vars

\* An order was announced to admin chat 7 and then confirmed to the customer
C2_Witness ==
    \E b \in BotSlots :
       /\ Finished(b)
       /\ OrderExists(bot[b].order_id)
       /\ Len(bot[b].out) = 2
       /\ bot[b].out[1].kind = "new_order" /\ bot[b].out[1].to = 7
       /\ bot[b].out[2].kind = "order_created"

\* C2 (as stated): every committed order is announced to the admin chat
\* before the customer is answered, whatever ADMIN_ID_RUNTIME holds.
C2_AlwaysNotified ==
    [][\A b \in BotSlots :
         NotifyStep(b) =>
            /\ Len(bot'[b].out) = 2
            /\ bot'[b].out[1].kind = "new_order"
            /\ bot'[b].out[2].kind = "order_created"]_vars

RECURSIVE SumItems(_)
SumItems(items) ==
    IF Len(items) = 0 THEN 0
    ELSE items[1].price * items[1].qty + SumItems(Tail(items))

\* Slot b accepts the item it is looking at in this step
AcceptsItem(b) ==
    /\ bot[b].pc = "load"
    /\ bot'[b].pc \in {"load", "save"}
    /\ Len(bot'[b].items) = Len(bot[b].items) + 1

SaveStep(b) == bot[b].pc = "save" /\ bot'[b].pc = "notify"

\* C3: an accepted item is charged the price its SKU has in products when
\* the checkout reads it, times the payload's qty; the total stored with the
\* order is the sum of these over the accepted items.
C3_TotalFromCatalogPrices ==
    [][\A b \in BotSlots :
         /\ AcceptsItem(b) =>
               LET it == ItemsOf(bot[b].data.obj)[bot[b].idx]
                   acc == bot'[b].items[Len(bot'[b].items)]
               IN  /\ acc.sku = it.sku
                   /\ acc.qty = PyInt(Get(it, "qty", [int |-> 1]))
                   /\ \E r \in products : r.sku = it.sku /\ acc.price = r.price
                   /\ bot'[b].total = bot[b].total + acc.price * acc.qty
         /\ SaveStep(b) =>
               \E o \in orders' \ orders :
                  /\ o.id = bot'[b].order_id
                  /\ o.total = SumItems(bot[b].items)]_vars

\* An order of 2 x device_1 and 1 x liquid_1 whose payload offered device_1
\* at price 1: stored at the catalog prices, 2 * 1899 + 349
C3_Witness ==
    \E b \in BotSlots, o \in orders :
       /\ Finished(b) /\ bot[b].order_id = o.id
       /\ \E k \in 1..Len(ItemsOf(bot[b].data.obj)) :
             "price" \in DOMAIN bot[b].data.obj.items[k]
       /\ o.total = 4147

\* C6: once /setadmin was handled in chat c, every order created afterwards
\* (and before another /setadmin) is announced to chat c.
C6_SetAdminRedirectsNotifications ==
    \A a \in BotSlots, b \in BotSlots :
       ( /\ bot[a].op = "cmd_setadmin"
         /\ Finished(b)
         /\ bot[b].order_id > bot[a].orders_seen )
       => /\ Len(bot[b].out) = 2
          /\ bot[b].out[1].kind = "new_order"
          /\ bot[b].out[1].to = bot[a].chat

ErrorKinds == {"unreadable", "unknown_type", "need_agree", "need_nick", "empty_cart"}

\* The payload is a checkout that passes every validation: a JSON object of type
\* checkout, both consents truthy, a nick starting with "@" (surrounding
\* blanks aside), and an item with a positive qty.
ValidCheckout(p) ==
    /\ p.json = "object"
    /\ Get(p.obj, "type", "") = "checkout"
    /\ "agree18" \in DOMAIN p.obj /\ Truthy(p.obj.agree18)
    /\ "acceptRules" \in DOMAIN p.obj /\ Truthy(p.obj.acceptRules)
    /\ "username" \in DOMAIN p.obj /\ "str" \in DOMAIN p.obj.username
    /\ StartsWith(Strip(p.obj.username.str), "@")
    /\ \E k \in 1..Len(ItemsOf(p.obj)) :
          LET qv == Get(p.obj.items[k], "qty", [int |-> 1]) IN
          PyIntOk(qv) /\ PyInt(qv) > 0

\* C7: an update that ended with an order had a valid checkout payload; any
\* other update ended with exactly one error answer and no order.
C7_OrderOnlyWhenValidElseError ==
    \A b \in BotSlots :
       Finished(b) =>
          IF bot[b].order_id # 0
          THEN ValidCheckout(bot[b].data) /\ OrderExists(bot[b].order_id)
          ELSE /\ Len(bot[b].out) = 1
               /\ bot[b].out[1].kind \in ErrorKinds
               /\ bot[b].out[1].to = bot[b].chat

\* C10: when bot.send_message raises inside notify_admin, the step changes
\* neither orders nor order_items, the order is there with status new and
\* its items, and the customer is sent the confirmation.
C10_NotifyFailureIsSwallowed ==
    [][\A b \in BotSlots :
         ( /\ NotifyStep(b)
           /\ Len(bot'[b].out) > 0
           /\ bot'[b].out[1].kind = "new_order"
           /\ ~bot'[b].out[1].delivered )
         => /\ orders' = orders
            /\ order_items' = order_items
            /\ \E o \in orders' : o.id = bot[b].order_id /\ o.status = "new"
            /\ \E i \in order_items' : i.order_id = bot[b].order_id
            /\ ~bot'[b].raised
            /\ bot'[b].out[Len(bot'[b].out)] = Answer(bot[b].chat, "order_created")]_vars

\* A checkout ended although the message to admin chat 7 was not delivered
C10_Witness ==
    \E b \in BotSlots :
       /\ Finished(b)
       /\ Len(bot[b].out) = 2
       /\ bot[b].out[1].kind = "new_order" /\ ~bot[b].out[1].delivered
       /\ bot[b].out[2].kind = "order_created"
       /\ \E o \in orders : o.id = bot[b].order_id /\ o.status = "new"

-----------------------------------------------------------------------------
(* Properties of the stored orders *)

ItemRowsOf(oid) == { i \in order_items : i.order_id = oid }

RECURSIVE SumRows(_)
SumRows(rows) ==
    IF rows = {} THEN 0
    ELSE LET r == CHOOSE x \in rows : TRUE IN r.price * r.qty + SumRows(rows \ {r})

OrdersConsistent ==
    /\ \A o \in orders :
          ItemRowsOf(o.id) # {} /\ o.total = SumRows(ItemRowsOf(o.id))
    /\ \A i \in order_items : i.qty >= 1 /\ OrderExists(i.order_id)

\* What get_order answered: an order with its items
ReaderSeesItems ==
    \A h \in HttpSlots :
       (http[h].op = "api_admin_order_one" /\ http[h].status = 200) =>
          /\ Len(http[h].body.items) > 0
          /\ http[h].body.total = SumItems(http[h].body.items)

\* No step removes an order or changes its total or its items
OrdersKept ==
    \A o \in orders :
       /\ \E q \in orders' : q.id = o.id /\ q.total = o.total
       /\ { i \in order_items' : i.order_id = o.id } = ItemRowsOf(o.id)

\* C9: in every committed state each order has at least one item row, every
\* item row has qty >= 1 and an existing order, and the order's total is the
\* sum of price x qty over its own rows; get_order never answers an order
\* without items; no step, a catalog edit included, changes an existing
\* order's items or total.
C9_OrdersConsistent ==
    /\ [](OrdersConsistent /\ ReaderSeesItems)
    /\ [][OrdersKept]_vars

\* Two orders, one moved to processing, one holding liquid_1 at 349 although
\* the catalog now sells it at 2, and get_order has answered with two items.
C9_Witness ==
    /\ Cardinality(orders) = 2
    /\ \E o \in orders : o.status = "processing"
    /\ \E r \in products : r.sku = "liquid_1" /\ r.price = 2
    /\ \E i \in order_items : i.product_sku = "liquid_1" /\ i.price = 349
    /\ ~\E r \in products : r.sku = "device_1"
    /\ \E h \in HttpSlots :
          /\ http[h].op = "api_admin_order_one" /\ http[h].status = 200
          /\ Len(http[h].body.items) = 2

-----------------------------------------------------------------------------
(* Properties of the admin API *)

AdminOps ==
    {"api_admin_catalog_get", "api_admin_catalog_upsert", "api_admin_catalog_delete",
     "api_admin_upload", "api_admin_orders", "api_admin_order_one",
     "api_admin_order_status"}

\* An admin endpoint starts handling a request on slot h in this step
AdminRequest(h) ==
    /\ http[h].pc = "idle"
    /\ http'[h] # http[h]
    /\ http'[h].op \in AdminOps

StoreUnchanged ==
    UNCHANGED <<products, productSeq, orders, order_items, orderSeq, itemSeq, uploads>>

\* C4 (as amended): an admin request is answered 401, with products, orders,
\* order_items and the uploaded files left as they were, unless ADMIN_SECRET
\* is non-empty and the X-Admin-Secret header equals it once the header's
\* surrounding whitespace is stripped; such a request is not answered 401.
C4_AdminNeedsStrippedSecret ==
    [][\A h \in HttpSlots :
         AdminRequest(h) =>
            IF ADMIN_SECRET # <<>> /\ Strip(http'[h].hdr) = ADMIN_SECRET
            THEN http'[h].status # 401
            ELSE http'[h].status = 401 /\ StoreUnchanged]_vars

\* A status change without the header was refused while orders and an
\* uploaded file existed
C4_Witness ==
    /\ ADMIN_SECRET = <<"s">>
    /\ orders # {}
    /\ uploads # {}
    /\ \E h \in HttpSlots :
          /\ http[h].op = "api_admin_order_status"
          /\ http[h].hdr = <<>>
          /\ http[h].status = 401

\* C4 (as stated): an admin request is answered 401, the store untouched,
\* unless the header equals a non-empty ADMIN_SECRET.
C4_AdminNeedsEqualSecret ==
    [][\A h \in HttpSlots :
         AdminRequest(h) =>
            ( ~(ADMIN_SECRET # <<>> /\ http'[h].hdr = ADMIN_SECRET)
              => (http'[h].status = 401 /\ StoreUnchanged) )]_vars

====
